---- MODULE Spec2Model ----
(***************************************************************************)
(* The ldap_group resource of terraform-provider-ldap                      *)
(* (internal/provider/resource_ldap_group.go): its create, read, update,   *)
(* delete and import handlers, run against an LDAP directory.              *)
(*                                                                         *)
(* Strings are TLA+ strings; where the code looks inside a string          *)
(* (strings.HasPrefix, strings.SplitN, strings.ToUpper, fmt.Sprintf) the   *)
(* string is spelled out character by character by Chars.  An attribute's  *)
(* values are a set: the directory holds no value twice and gives no       *)
(* meaning to their order.                                                 *)
(***************************************************************************)
EXTENDS Integers, Sequences, FiniteSets, TLC

VARIABLES
  dn,      \* d.Get("dn"): the resource's DN, fixed for its life (ForceNew)
  id,      \* d.Id(): "" while the resource is not in the local state
  st,      \* the resource's normalized local state (the other schema fields)
  dir,     \* the directory: for each DN, the entry stored there, if any
  calls,   \* the protocol calls the last cycle issued over the connection
  cycle,   \* the last cycle: its handler, inputs, result and the state before
  pc,      \* where the running handler stands between two of its calls
  other    \* the resource of the other DN, whose handler runs concurrently

vars == <<dn, id, st, dir, calls, cycle, pc, other>>

----------------------------------------------------------------------------
(* Bounds of the model.                                                    *)

\* A desired state differs from BaseConfig in at most this many places
\* (a scalar, one object class, one member value, one generic entry).
MaxWeight == 2

\* An entry found in the directory by a read holds at most this many values.
MaxEntryValues == 3

\* Mutating cycles (create, update, delete) a run may go through.
MaxCycles == 2

\* Where two resources run side by side, a desired state differs from
\* BaseConfig in at most this many places.
MaxTwoWeight == 1

----------------------------------------------------------------------------
(* Strings.                                                                *)

DNs == {"cn=g,o=x", "ou=users,o=x"}

Chars(s) ==
  CASE s = "cn=g,o=x"     -> <<"c", "n", "=", "g", ",", "o", "=", "x">>
    [] s = "ou=users,o=x" -> <<"o", "u", "=", "u", "s", "e", "r", "s", ",", "o", "=", "x">>
    [] s = "cn"           -> <<"c", "n">>
    [] s = "g"            -> <<"g">>
    [] s = "mail"         -> <<"m", "a", "i", "l">>
    [] s = "ou"           -> <<"o", "u">>
    [] s = "a"            -> <<"a">>
    [] s = "b"            -> <<"b">>
    [] s = "users"        -> <<"u", "s", "e", "r", "s">>
    [] s = "user"         -> <<"u", "s", "e", "r">>

\* The strings a derived CN can be.
CNValues == {"g"}

Lower == <<"a", "b", "c", "d", "e", "g", "i", "l", "m", "n", "o", "r", "s", "u", "x">>
Upper == <<"A", "B", "C", "D", "E", "G", "I", "L", "M", "N", "O", "R", "S", "U", "X">>

\* strings.ToUpper
ToUpper(cs) ==
  [i \in 1..Len(cs) |->
     IF \E k \in 1..Len(Lower) : Lower[k] = cs[i]
     THEN Upper[CHOOSE k \in 1..Len(Lower) : Lower[k] = cs[i]]
     ELSE cs[i]]

\* strings.HasPrefix
HasPrefix(cs, prefix) ==
  /\ Len(prefix) <= Len(cs)
  /\ SubSeq(cs, 1, Len(prefix)) = prefix

\* strings.SplitN(s, ",", 2)[0]: the text before the first comma, or all of it
FirstPart(cs) ==
  IF \E i \in 1..Len(cs) : cs[i] = ","
  THEN LET first == CHOOSE i \in 1..Len(cs) :
                      /\ cs[i] = ","
                      /\ \A j \in 1..(i - 1) : cs[j] # ","
       IN SubSeq(cs, 1, first - 1)
  ELSE cs

\* fmt.Sprintf("%s=%s", name, value)
Sprintf(name, value) == Chars(name) \o <<"=">> \o Chars(value)

\* The strings the model spells out, and a DN's leading RDN as a pair.
Spelled == {"cn", "mail", "ou", "g", "a", "b", "users", "user"}

LeadingRDNOf(d) ==
  CHOOSE p \in Spelled \X Spelled : Sprintf(p[1], p[2]) = FirstPart(Chars(d))

\* The order in which schema.Set.List() enumerates a set of strings: the
\* order of the elements' hash codes, fixed for given elements.
ListOrder ==
  <<"alice", "bob", "carol", "posixGroup", "top", "a", "b", "x", "d",
    "users", "user", "g", "0", "1000">>

List(S) == SelectSeq(ListOrder, LAMBDA v : v \in S)

----------------------------------------------------------------------------
(* The directory and the connection's operations.                          *)

AttrNames ==
  {"objectClass", "cn", "description", "gidNumber", "member", "memberUid",
   "uniqueMember", "memberURL", "mail", "ou"}

NoAttrs == [a \in AttrNames |-> {}]

NoEntry == [present |-> FALSE, attrs |-> NoAttrs]

\* One ldap.Change applied to an entry's attributes (RFC 4511, 4.6).
ApplyChange(attrs, ch) ==
  CASE ch.op = "Add" ->
         IF ch.vals = {} \/ ch.vals \cap attrs[ch.type] # {}
         THEN [ok |-> FALSE, attrs |-> attrs]
         ELSE [ok |-> TRUE,
               attrs |-> [attrs EXCEPT ![ch.type] = @ \cup ch.vals]]
    [] ch.op = "Delete" ->
         IF attrs[ch.type] = {} \/ ~(ch.vals \subseteq attrs[ch.type])
         THEN [ok |-> FALSE, attrs |-> attrs]
         ELSE [ok |-> TRUE,
               attrs |-> [attrs EXCEPT ![ch.type] =
                            IF ch.vals = {} THEN {} ELSE @ \ ch.vals]]
    [] ch.op = "Replace" ->
         [ok |-> TRUE, attrs |-> [attrs EXCEPT ![ch.type] = ch.vals]]

RECURSIVE ApplyChanges(_, _)
ApplyChanges(attrs, changes) ==
  IF changes = <<>>
  THEN [ok |-> TRUE, attrs |-> attrs]
  ELSE LET r == ApplyChange(attrs, Head(changes))
       IN IF r.ok THEN ApplyChanges(r.attrs, Tail(changes))
          ELSE [ok |-> FALSE, attrs |-> attrs]

\* client.Add: the entry is stored as sent unless it exists already, an
\* attribute is named twice or has no value, or the server refuses.
DirAdd(d, attributes, accepts) ==
  LET wellFormed ==
        /\ \A i \in 1..Len(attributes) : attributes[i].vals # {}
        /\ \A i, j \in 1..Len(attributes) :
             attributes[i].type = attributes[j].type => i = j
      ok == accepts /\ ~d[dn].present /\ wellFormed
      stored == [a \in AttrNames |->
                   IF \E i \in 1..Len(attributes) : attributes[i].type = a
                   THEN attributes[CHOOSE i \in 1..Len(attributes) :
                                     attributes[i].type = a].vals
                   ELSE {}]
  IN [ok |-> ok,
      dir |-> IF ok THEN [d EXCEPT ![dn] = [present |-> TRUE, attrs |-> stored]]
              ELSE d]

\* client.Modify: all the changes are applied, in order, or none is.
DirModify(d, changes, accepts) ==
  LET r == ApplyChanges(d[dn].attrs, changes)
      ok == accepts /\ d[dn].present /\ r.ok
  IN [ok |-> ok,
      dir |-> IF ok THEN [d EXCEPT ![dn].attrs = r.attrs] ELSE d]

\* client.Del with a request that names every DN, not the resource's alone.
DirDel_EveryDN(d, accepts) ==
  LET ok == accepts /\ d[dn].present
  IN [ok |-> ok, dir |-> IF ok THEN [x \in DNs |-> NoEntry] ELSE d]

\* client.Del
DirDel(d, accepts) ==
  LET ok == accepts /\ d[dn].present
  IN [ok |-> ok, dir |-> IF ok THEN [d EXCEPT ![dn] = NoEntry] ELSE d]

\* The ways a Search can end other than by the entry's presence deciding it:
\* the server answers ("ok"), fails ("error"), or answers with no entry
\* ("empty").
SearchOutcomes == {"ok", "error", "empty"}

\* The server's answers to a mutating cycle's calls: whether it accepts the
\* Add, Modify or Del, and how the Search of the re-read ends after that.
Answers ==
  {<<FALSE, "ok">>, <<TRUE, "ok">>, <<TRUE, "error">>, <<TRUE, "empty">>}

\* client.Search with scope base: at most one entry
DirSearch(d, outcome) ==
  CASE outcome = "error"   -> [err |-> "Other", found |-> FALSE]
    [] ~d[dn].present      -> [err |-> "NoSuchObject", found |-> FALSE]
    [] outcome = "empty"   -> [err |-> "", found |-> FALSE]
    [] OTHER               -> [err |-> "", found |-> TRUE]

----------------------------------------------------------------------------
(* The declarative boundary: desired states (configuration) and the        *)
(* normalized state, as schema.ResourceData presents them.                 *)

MemberFields == {"member", "member_uid", "unique_member", "member_url"}

\* The places where a desired state can differ from BaseConfig, each a
\* triple <<field, name, value>>.
Atoms ==
  {<<"description", "", "d">>,
   <<"gid_number", "", "unset">>, <<"gid_number", "", "0">>,
   <<"object_classes", "", "posixGroup">>, <<"object_classes", "", "top">>,
   <<"member", "", "alice">>,
   <<"member_uid", "", "alice">>, <<"member_uid", "", "bob">>,
   <<"member_uid", "", "carol">>,
   <<"unique_member", "", "alice">>,
   <<"member_url", "", "bob">>,
   <<"attributes", "mail", "a">>, <<"attributes", "mail", "b">>,
   <<"attributes", "description", "x">>}

RECURSIVE SubsetsUpTo(_, _)
SubsetsUpTo(S, k) ==
  IF k = 0 THEN {{}}
  ELSE LET smaller == SubsetsUpTo(S, k - 1)
       IN smaller \cup {A \cup {x} : A \in smaller, x \in S}

\* The desired state that differs from the base one (description unset,
\* gid_number = 1000, object_classes = [posixGroup], nothing else) in A.
ConfigOf(A) ==
  [description    |-> IF <<"description", "", "d">> \in A THEN "d" ELSE "",
   gid_supplied   |-> <<"gid_number", "", "unset">> \notin A,
   gid_number     |-> IF <<"gid_number", "", "unset">> \in A
                         \/ <<"gid_number", "", "0">> \in A
                      THEN 0 ELSE 1000,
   object_classes |-> ({"posixGroup"} \ {a[3] : a \in {b \in A :
                          b[1] = "object_classes" /\ b[3] = "posixGroup"}})
                      \cup {a[3] : a \in {b \in A :
                          b[1] = "object_classes" /\ b[3] = "top"}},
   member         |-> {a[3] : a \in {b \in A : b[1] = "member"}},
   member_uid     |-> {a[3] : a \in {b \in A : b[1] = "member_uid"}},
   unique_member  |-> {a[3] : a \in {b \in A : b[1] = "unique_member"}},
   member_url     |-> {a[3] : a \in {b \in A : b[1] = "member_url"}},
   attributes     |-> {<<a[2], a[3]>> : a \in {b \in A : b[1] = "attributes"}}]

BaseConfig == ConfigOf({})

Configs == {ConfigOf(A) : A \in SubsetsUpTo(Atoms, MaxWeight)}

\* What d.Get returns for each field while create or update runs: the
\* desired value, or the type's zero value where none is supplied.
Planned(cfg) ==
  [description    |-> cfg.description,
   gid_number     |-> IF cfg.gid_supplied THEN cfg.gid_number ELSE 0,
   object_classes |-> cfg.object_classes,
   member         |-> cfg.member,
   member_uid     |-> cfg.member_uid,
   unique_member  |-> cfg.unique_member,
   member_url     |-> cfg.member_url,
   attributes     |-> cfg.attributes]

EmptyState ==
  [description |-> "", gid_number |-> 0, object_classes |-> {}, member |-> {},
   member_uid |-> {}, unique_member |-> {}, member_url |-> {},
   attributes |-> {}]

\* d.GetOk: the value is supplied and is not its type's zero value.
GetOkString(v) == v # ""
GetOkSet(v) == v # {}
GetOkGidNumber(cfg) == cfg.gid_supplied /\ cfg.gid_number # 0

\* d.HasChange
HasChange(old, new, field) == old[field] # new[field]

\* strconv.Itoa, and strconv.Atoi on the numerals the model uses
Itoa(n) == ToString(n)

GidNumbers == {0, 1000}

Atoi(s) ==
  IF \E n \in GidNumbers : ToString(n) = s
  THEN [ok |-> TRUE, n |-> CHOOSE n \in GidNumbers : ToString(n) = s]
  ELSE [ok |-> FALSE, n |-> 0]

----------------------------------------------------------------------------
(* Helpers of the handlers.                                                *)

\* deriveCNFromDN
deriveCNFromDN(s) ==
  LET cnPart == FirstPart(Chars(s))
  IN IF HasPrefix(ToUpper(cnPart), <<"C", "N", "=">>)
     THEN [ok |-> TRUE,
           cn |-> CHOOSE v \in CNValues :
                    Chars(v) = SubSeq(cnPart, 4, Len(cnPart))]
     ELSE [ok |-> FALSE, cn |-> ""]

RECURSIVE validateLoop(_, _)
validateLoop(objectClasses, cfg) ==
  IF objectClasses = <<>> THEN <<>>
  ELSE (IF Head(objectClasses) = "posixGroup" /\ ~GetOkGidNumber(cfg)
        THEN <<"missing required attribute 'gid_number' for objectClass 'posixGroup'">>
        ELSE <<>>)
       \o validateLoop(Tail(objectClasses), cfg)

\* validateObjectClasses: the errors, one per violation
validateObjectClasses(objectClasses, cfg) == validateLoop(objectClasses, cfg)

Attr(type, vals) == [type |-> type, vals |-> vals]

Change(op, type, vals) == [op |-> op, type |-> type, vals |-> vals]

\* updateLDAPAttributeSet deleting every old value, not only those dropped.
updateLDAPAttributeSet_DeleteOld(old, new, tfAttributeName, ldapAttributeName) ==
  IF HasChange(old, new, tfAttributeName)
  THEN LET oldSet == old[tfAttributeName]
           newSet == new[tfAttributeName]
           toAdd == List(newSet \ oldSet)
           toRemove == List(oldSet)
       IN [i \in 1..Len(toAdd) |-> Change("Add", ldapAttributeName, {toAdd[i]})]
          \o [i \in 1..Len(toRemove) |->
                Change("Delete", ldapAttributeName, {toRemove[i]})]
  ELSE <<>>

\* updateLDAPAttributeSet: the changes it appends to the request
updateLDAPAttributeSet(old, new, tfAttributeName, ldapAttributeName) ==
  IF HasChange(old, new, tfAttributeName)
  THEN LET oldSet == old[tfAttributeName]
           newSet == new[tfAttributeName]
           toAdd == List(newSet \ oldSet)
           toRemove == List(oldSet \ newSet)
       IN [i \in 1..Len(toAdd) |-> Change("Add", ldapAttributeName, {toAdd[i]})]
          \o [i \in 1..Len(toRemove) |->
                Change("Delete", ldapAttributeName, {toRemove[i]})]
  ELSE <<>>

----------------------------------------------------------------------------
(* resourceLDAPGroupRead.                                                  *)

\* One call on the connection, as the log keeps it: the operation, the DN
\* of the request, what the request carries and how the call ended.
Call(op, attributes, changes, result) ==
  [op |-> op, dn |-> dn, attributes |-> attributes, changes |-> changes,
   result |-> result]

\* entry.GetAttributeValue: the first value sent back, "" when there is none.
\* Which value comes first is the server's choice, given as first[name].
GetAttributeValue(attrs, name, first) ==
  IF attrs[name] = {} THEN "" ELSE first[name]

\* The choices a server has for the first value of the attributes read singly.
Firsts(attrs) ==
  {f \in [{"description", "gidNumber"} -> UNION {attrs[a] : a \in AttrNames} \cup {""}] :
     \A a \in {"description", "gidNumber"} :
        IF attrs[a] = {} THEN f[a] = "" ELSE f[a] \in attrs[a]}

\* The attributes the read loop skips as handled elsewhere.
SkippedAttributes ==
  {"objectClass", "cn", "description", "gidNumber", "memberUid",
   "uniqueMember", "memberURL", "member"}

\* IsRDN with the arguments of strings.HasPrefix exchanged.
IsRDN_Swapped(name, vals) ==
  /\ Cardinality(vals) = 1
  /\ HasPrefix(Sprintf(name, CHOOSE v \in vals : TRUE), Chars(dn))

\* The RDN test of the read loop: a single-valued attribute whose name=value
\* begins the DN.
IsRDN(name, vals) ==
  /\ Cardinality(vals) = 1
  /\ HasPrefix(Chars(dn), Sprintf(name, CHOOSE v \in vals : TRUE))

\* The read loop over the entry's attributes: the generic bag.
DecodeAttributes(attrs) ==
  UNION {IF attrs[a] = {} \/ a \in SkippedAttributes \/ IsRDN(a, attrs[a])
         THEN {}
         ELSE {<<a, v>> : v \in attrs[a]} : a \in AttrNames}

\* What read stores in the `member` field for an entry with member values.
ReadMember(attrs) == attrs["memberURL"]

\* The fields read sets from a found entry, over the values d held before.
ReadEntry(base, attrs, first) ==
  LET gidNumberStr == GetAttributeValue(attrs, "gidNumber", first)
      gidNumber == Atoi(gidNumberStr)
      s1 == [base EXCEPT !.description =
                           GetAttributeValue(attrs, "description", first)]
      s2 == IF gidNumberStr # "" /\ gidNumber.ok
            THEN [s1 EXCEPT !.gid_number = gidNumber.n] ELSE s1
      s3 == IF attrs["objectClass"] # {}
            THEN [s2 EXCEPT !.object_classes = attrs["objectClass"]] ELSE s2
      s4 == IF attrs["memberUid"] # {}
            THEN [s3 EXCEPT !.member_uid = attrs["memberUid"]] ELSE s3
      s5 == IF attrs["uniqueMember"] # {}
            THEN [s4 EXCEPT !.unique_member = attrs["uniqueMember"]] ELSE s4
      s6 == IF attrs["memberURL"] # {}
            THEN [s5 EXCEPT !.member_url = attrs["memberURL"]] ELSE s5
      s7 == IF attrs["member"] # {}
            THEN [s6 EXCEPT !.member = ReadMember(attrs)] ELSE s6
  IN IF gidNumberStr # "" /\ ~gidNumber.ok
     THEN [err |-> "atoi", st |-> s1]
     ELSE [err |-> "", st |-> [s7 EXCEPT !.attributes = DecodeAttributes(attrs)]]

\* resourceLDAPGroupRead returning every Search error, "no such object" too.
resourceLDAPGroupRead_EveryError(base, id0, d, outcome, first) ==
  LET sr == DirSearch(d, outcome)
      search == Call("Search", <<>>, <<>>,
                     CASE sr.err # "" -> sr.err
                       [] ~sr.found   -> "empty"
                       [] OTHER       -> "found")
      read == ReadEntry(base, d[dn].attrs, first)
  IN CASE sr.err # "" ->
            [err |-> "protocol", id |-> id0, st |-> base, calls |-> <<search>>]
       [] ~sr.found ->
            [err |-> "", id |-> "", st |-> base, calls |-> <<search>>]
       [] OTHER ->
            [err |-> read.err, id |-> id0, st |-> read.st, calls |-> <<search>>]

\* resourceLDAPGroupRead on a ResourceData holding `base` and the ID id0.
resourceLDAPGroupRead(base, id0, d, outcome, first) ==
  LET sr == DirSearch(d, outcome)
      search == Call("Search", <<>>, <<>>,
                     CASE sr.err # "" -> sr.err
                       [] ~sr.found   -> "empty"
                       [] OTHER       -> "found")
      read == ReadEntry(base, d[dn].attrs, first)
  IN CASE sr.err = "NoSuchObject" ->
            [err |-> "", id |-> "", st |-> base, calls |-> <<search>>]
       [] sr.err = "Other" ->
            [err |-> "protocol", id |-> id0, st |-> base, calls |-> <<search>>]
       [] ~sr.found ->
            [err |-> "", id |-> "", st |-> base, calls |-> <<search>>]
       [] OTHER ->
            [err |-> read.err, id |-> id0, st |-> read.st, calls |-> <<search>>]

----------------------------------------------------------------------------
(* resourceLDAPGroupCreate.                                                *)

\* CreateObjectClasses without the default.
CreateObjectClasses_NoDefault(cfg) == List(cfg.object_classes)

\* The object classes create works with: the desired ones or the default.
CreateObjectClasses(cfg) ==
  IF GetOkSet(cfg.object_classes) THEN List(cfg.object_classes)
  ELSE <<"posixGroup">>

\* CreatePrecheck without the return on a DN that gives no CN.
CreatePrecheck_NoDNCheck(cfg) ==
  IF Len(validateObjectClasses(CreateObjectClasses(cfg), cfg)) > 0
  THEN "validation"
  ELSE ""

\* The checks create makes before it sends anything.
CreatePrecheck(cfg) ==
  IF Len(validateObjectClasses(CreateObjectClasses(cfg), cfg)) > 0
  THEN "validation"
  ELSE IF ~deriveCNFromDN(dn).ok THEN "malformed_dn"
  ELSE ""

\* The orders in which Go may range over a map with the keys S.
Orders(S) ==
  {o \in [1..Cardinality(S) -> S] : \A i, j \in 1..Cardinality(S) : o[i] = o[j] => i = j}

\* GenericAttributes keeping one value per name (m[name] assigned, not
\* appended to).
GenericAttributes_LastValue(bag, order) ==
  [i \in 1..Len(order) |->
     Attr(order[i], {CHOOSE v \in {e[2] : e \in {x \in bag : x[1] = order[i]}} : TRUE})]

\* The generic entries grouped by name (the map m), sent in the order `order`.
GenericAttributes(bag, order) ==
  [i \in 1..Len(order) |->
     Attr(order[i], {e[2] : e \in {x \in bag : x[1] = order[i]}})]

\* The attributes of the Add request, in the order create appends them.
CreateAttributes(cfg, order) ==
  LET setAttr(field, name) ==
        IF GetOkSet(cfg[field]) THEN <<Attr(name, cfg[field])>> ELSE <<>>
  IN <<Attr("objectClass", {CreateObjectClasses(cfg)[i] :
                              i \in 1..Len(CreateObjectClasses(cfg))}),
       Attr("cn", {deriveCNFromDN(dn).cn})>>
     \o (IF GetOkString(cfg.description)
         THEN <<Attr("description", {cfg.description})>> ELSE <<>>)
     \o (IF GetOkGidNumber(cfg)
         THEN <<Attr("gidNumber", {Itoa(cfg.gid_number)})>> ELSE <<>>)
     \o setAttr("member_uid", "memberUid")
     \o setAttr("unique_member", "uniqueMember")
     \o setAttr("member_url", "memberURL")
     \o setAttr("member", "member")
     \o GenericAttributes(cfg.attributes, order)

\* resourceLDAPGroupCreate with d.SetId(dn) moved before client.Add.
resourceLDAPGroupCreate_SetIdFirst(cfg, order, accepts, outcome, first) ==
  LET pre == CreatePrecheck(cfg)
      attributes == CreateAttributes(cfg, order)
      add == DirAdd(dir, attributes, accepts)
      read == resourceLDAPGroupRead(Planned(cfg), dn, add.dir, outcome, first)
  IN IF pre # ""
     THEN [err |-> pre, id |-> id, st |-> st, dir |-> dir, calls |-> <<>>]
     ELSE IF ~add.ok
     THEN [err |-> "protocol", id |-> dn, st |-> st, dir |-> dir,
           calls |-> <<Call("Add", attributes, <<>>, "error")>>]
     ELSE [err |-> read.err, id |-> read.id, st |-> read.st, dir |-> add.dir,
           calls |-> <<Call("Add", attributes, <<>>, "ok")>> \o read.calls]

\* resourceLDAPGroupCreate, the server's answers to its calls being inputs.
resourceLDAPGroupCreate(cfg, order, accepts, outcome, first) ==
  LET pre == CreatePrecheck(cfg)
      attributes == CreateAttributes(cfg, order)
      add == DirAdd(dir, attributes, accepts)
      read == resourceLDAPGroupRead(Planned(cfg), dn, add.dir, outcome, first)
  IN IF pre # ""
     THEN [err |-> pre, id |-> id, st |-> st, dir |-> dir, calls |-> <<>>]
     ELSE IF ~add.ok
     THEN [err |-> "protocol", id |-> id, st |-> st, dir |-> dir,
           calls |-> <<Call("Add", attributes, <<>>, "error")>>]
     ELSE [err |-> read.err, id |-> read.id, st |-> read.st, dir |-> add.dir,
           calls |-> <<Call("Add", attributes, <<>>, "ok")>> \o read.calls]

----------------------------------------------------------------------------
(* resourceLDAPGroupUpdate, resourceLDAPGroupDelete, resourceLDAPGroupImport. *)

\* The order in which the delta lists generic entries: by name, then value.
BagOrder ==
  <<<<"description", "x">>, <<"mail", "a">>, <<"mail", "b">>,
    <<"ou", "user">>, <<"ou", "users">>>>

ListBag(S) == SelectSeq(BagOrder, LAMBDA e : e \in S)

\* computeDeltas: the entries added and removed, one modification per entry;
\* no entry is ever "changed".
computeDeltas(o, n) ==
  LET add == ListBag(n \ o)
      del == ListBag(o \ n)
  IN [added   |-> [i \in 1..Len(add) |-> Attr(add[i][1], {add[i][2]})],
      changed |-> <<>>,
      removed |-> [i \in 1..Len(del) |-> Attr(del[i][1], {del[i][2]})]]

\* ScalarChanges replacing gidNumber whether or not gid_number changed.
ScalarChanges_GidAlways(old, new) ==
  (IF HasChange(old, new, "description")
   THEN <<Change("Replace", "description", {new.description})>> ELSE <<>>)
  \o <<Change("Replace", "gidNumber", {Itoa(new.gid_number)})>>

\* ScalarChanges replacing the description whether or not it changed.
ScalarChanges_Always(old, new) ==
  <<Change("Replace", "description", {new.description})>>
  \o (IF HasChange(old, new, "gid_number")
      THEN <<Change("Replace", "gidNumber", {Itoa(new.gid_number)})>> ELSE <<>>)

\* The Replace changes of the two scalar fields.
ScalarChanges(old, new) ==
  (IF HasChange(old, new, "description")
   THEN <<Change("Replace", "description", {new.description})>> ELSE <<>>)
  \o (IF HasChange(old, new, "gid_number")
      THEN <<Change("Replace", "gidNumber", {Itoa(new.gid_number)})>> ELSE <<>>)

\* AttributeChanges without the loop over the removed entries.
AttributeChanges_NoDelete(old, new) ==
  IF HasChange(old, new, "attributes")
  THEN LET deltas == computeDeltas(old.attributes, new.attributes)
           render(op, mods) ==
             [i \in 1..Len(mods) |-> Change(op, mods[i].type, mods[i].vals)]
       IN render("Add", deltas.added)
          \o render("Replace", deltas.changed)
  ELSE <<>>

\* The changes update renders from the delta of the generic bag.
AttributeChanges(old, new) ==
  IF HasChange(old, new, "attributes")
  THEN LET deltas == computeDeltas(old.attributes, new.attributes)
           render(op, mods) ==
             [i \in 1..Len(mods) |-> Change(op, mods[i].type, mods[i].vals)]
       IN render("Add", deltas.added)
          \o render("Replace", deltas.changed)
          \o render("Delete", deltas.removed)
  ELSE <<>>

\* request.Changes as update leaves it before the Modify.
UpdateChanges(old, new) ==
  ScalarChanges(old, new)
  \o updateLDAPAttributeSet(old, new, "member", "member")
  \o updateLDAPAttributeSet(old, new, "member_uid", "memberUid")
  \o updateLDAPAttributeSet(old, new, "unique_member", "uniqueMember")
  \o updateLDAPAttributeSet(old, new, "member_url", "memberURL")
  \o AttributeChanges(old, new)

\* resourceLDAPGroupUpdate.  When it fails, the SDK keeps the planned values
\* as the resource's state.
resourceLDAPGroupUpdate(cfg, accepts, outcome, first) ==
  LET changes == UpdateChanges(st, Planned(cfg))
      mod == DirModify(dir, changes, accepts)
      read == resourceLDAPGroupRead(Planned(cfg), id, mod.dir, outcome, first)
  IN IF ~mod.ok
     THEN [err |-> "protocol", id |-> id, st |-> Planned(cfg), dir |-> dir,
           calls |-> <<Call("Modify", <<>>, changes, "error")>>]
     ELSE [err |-> read.err, id |-> read.id, st |-> read.st, dir |-> mod.dir,
           calls |-> <<Call("Modify", <<>>, changes, "ok")>> \o read.calls]

\* resourceLDAPGroupDelete
resourceLDAPGroupDelete(accepts) ==
  LET del == DirDel(dir, accepts)
  IN IF ~del.ok
     THEN [err |-> "protocol", id |-> id, st |-> st, dir |-> dir,
           calls |-> <<Call("Del", <<>>, <<>>, "error")>>]
     ELSE [err |-> "", id |-> "", st |-> st, dir |-> del.dir,
           calls |-> <<Call("Del", <<>>, <<>>, "ok")>>]

\* resourceLDAPGroupImport: a read on a ResourceData that holds only the ID.
resourceLDAPGroupImport(outcome, first) ==
  resourceLDAPGroupRead(EmptyState, dn, dir, outcome, first)

----------------------------------------------------------------------------
(* The state machine: one action per cycle.                                *)

\* A handler that is not running, or runs with no other beside it.
Idle ==
  [at |-> "idle", base |-> EmptyState, outcome |-> "ok",
   first |-> [a \in {"description", "gidNumber"} |-> ""], overlapped |-> FALSE,
   expect |-> [err |-> "", id |-> "", st |-> EmptyState, entry |-> NoEntry]]

NoCycle ==
  [op |-> "none", err |-> "", want |-> BaseConfig, prevSt |-> EmptyState,
   prevEntry |-> NoEntry, prevId |-> "", n |-> 0]

NoOther ==
  [dn |-> "", id |-> "", st |-> EmptyState, calls |-> <<>>, cycle |-> NoCycle,
   pc |-> Idle]

Cycle(op, err, want, n) ==
  [op |-> op, err |-> err, want |-> want, prevSt |-> st,
   prevEntry |-> dir[dn], prevId |-> id, n |-> n]

Init ==
  /\ dn \in DNs
  /\ id = ""
  /\ st = EmptyState
  /\ dir = [d \in DNs |-> NoEntry]
  /\ calls = <<>>
  /\ cycle = NoCycle
  /\ pc = Idle
  /\ other = NoOther

Create ==
  /\ id = ""
  /\ cycle.err = ""
  /\ cycle.n < MaxCycles
  /\ \E cfg \in Configs, ans \in Answers :
       \E order \in Orders({e[1] : e \in cfg.attributes}) :
         \E first \in Firsts(DirAdd(dir, CreateAttributes(cfg, order),
                                    ans[1]).dir[dn].attrs) :
           \E r \in {resourceLDAPGroupCreate(cfg, order, ans[1], ans[2], first)} :
              /\ id' = r.id
              /\ st' = r.st
              /\ dir' = r.dir
              /\ calls' = r.calls
              /\ cycle' = Cycle("create", r.err, cfg, cycle.n + 1)
  /\ UNCHANGED <<dn, pc, other>>

Read ==
  /\ id # ""
  /\ \E outcome \in SearchOutcomes :
       \E first \in Firsts(dir[dn].attrs) :
         \E r \in {resourceLDAPGroupRead(st, id, dir, outcome, first)} :
            /\ id' = r.id
            /\ st' = r.st
            /\ calls' = r.calls
            /\ cycle' = Cycle("read", r.err, BaseConfig, cycle.n)
  /\ UNCHANGED <<dn, dir, pc, other>>

Update ==
  /\ id # ""
  /\ cycle.err = ""
  /\ cycle.n < MaxCycles
  /\ \E cfg \in Configs, ans \in Answers :
       \E first \in Firsts(DirModify(dir, UpdateChanges(st, Planned(cfg)),
                                     ans[1]).dir[dn].attrs) :
         \E r \in {resourceLDAPGroupUpdate(cfg, ans[1], ans[2], first)} :
            /\ id' = r.id
            /\ st' = r.st
            /\ dir' = r.dir
            /\ calls' = r.calls
            /\ cycle' = Cycle("update", r.err, cfg, cycle.n + 1)
  /\ UNCHANGED <<dn, pc, other>>

Delete ==
  /\ id # ""
  /\ cycle.err = ""
  /\ cycle.n < MaxCycles
  /\ \E accepts \in BOOLEAN :
       \E r \in {resourceLDAPGroupDelete(accepts)} :
          /\ id' = r.id
          /\ st' = r.st
          /\ dir' = r.dir
          /\ calls' = r.calls
          /\ cycle' = Cycle("delete", r.err, BaseConfig, cycle.n + 1)
  /\ UNCHANGED <<dn, pc, other>>

Import ==
  /\ id = ""
  /\ \E outcome \in SearchOutcomes :
       \E first \in Firsts(dir[dn].attrs) :
         \E r \in {resourceLDAPGroupImport(outcome, first)} :
            /\ id' = r.id
            /\ st' = r.st
            /\ calls' = r.calls
            /\ cycle' = Cycle("import", r.err, BaseConfig, cycle.n)
  /\ UNCHANGED <<dn, dir, pc, other>>

\* A run of the resource's cycles.  It ends with the first cycle that fails,
\* but for the refresh (read) that starts the next run.
Next == Create \/ Read \/ Update \/ Delete

Spec == Init /\ [][Next]_vars

----------------------------------------------------------------------------
(* Reads of entries that were not written by this resource: the directory  *)
(* holds any entry of bounded size, the local state any earlier state.     *)

EntryAtoms ==
  {<<"objectClass", "posixGroup">>, <<"objectClass", "top">>, <<"cn", "g">>,
   <<"description", "d">>, <<"gidNumber", "1000">>,
   <<"member", "alice">>, <<"member", "bob">>,
   <<"memberUid", "alice">>, <<"memberUid", "bob">>,
   <<"uniqueMember", "alice">>,
   <<"memberURL", "alice">>, <<"memberURL", "bob">>,
   <<"mail", "a">>, <<"mail", "b">>,
   <<"ou", "users">>, <<"ou", "user">>}

EntryOf(A) ==
  [present |-> TRUE,
   attrs |-> [a \in AttrNames |-> {e[2] : e \in {x \in A : x[1] = a}}]]

Entries == {EntryOf(A) : A \in SubsetsUpTo(EntryAtoms, MaxEntryValues)}

PriorStates ==
  {EmptyState,
   Planned(ConfigOf({<<"member_uid", "", "carol">>, <<"member", "", "bob">>})),
   Planned(ConfigOf({<<"description", "", "d">>, <<"attributes", "mail", "b">>}))}

InitRead ==
  /\ dn \in DNs
  /\ id \in {dn, ""}
  /\ st \in PriorStates
  /\ \E e \in Entries \cup {NoEntry} :
       dir = [d \in DNs |-> IF d = dn THEN e ELSE NoEntry]
  /\ calls = <<>>
  /\ cycle = [op |-> "none", err |-> "", want |-> BaseConfig,
              prevSt |-> st, prevEntry |-> dir[dn], prevId |-> id, n |-> 0]
  /\ pc = Idle
  /\ other = NoOther

NextRead == Read \/ Import

SpecRead == InitRead /\ [][NextRead]_vars

----------------------------------------------------------------------------
(* Two resources with distinct DNs whose handlers run concurrently over    *)
(* the one connection.  A handler is one goroutine: between two of its     *)
(* calls the handler of the other resource may run.  The variables dn, id, *)
(* st, calls, cycle and pc are those of the handler that takes the next    *)
(* step; `other` keeps those of the other one.                             *)

\* resourceLDAPGroupCreate up to its call of resourceLDAPGroupRead.
CreateUntilRead(cfg, order, accepts) ==
  LET pre == CreatePrecheck(cfg)
      attributes == CreateAttributes(cfg, order)
      add == DirAdd(dir, attributes, accepts)
  IN IF pre # ""
     THEN [done |-> TRUE, err |-> pre, id |-> id, st |-> st, dir |-> dir,
           calls |-> <<>>]
     ELSE IF ~add.ok
     THEN [done |-> TRUE, err |-> "protocol", id |-> id, st |-> st, dir |-> dir,
           calls |-> <<Call("Add", attributes, <<>>, "error")>>]
     ELSE [done |-> FALSE, err |-> "", id |-> dn, st |-> Planned(cfg),
           dir |-> add.dir, calls |-> <<Call("Add", attributes, <<>>, "ok")>>]

\* resourceLDAPGroupUpdate up to its call of resourceLDAPGroupRead.
UpdateUntilRead(cfg, accepts) ==
  LET changes == UpdateChanges(st, Planned(cfg))
      mod == DirModify(dir, changes, accepts)
  IN IF ~mod.ok
     THEN [done |-> TRUE, err |-> "protocol", id |-> id, st |-> Planned(cfg),
           dir |-> dir, calls |-> <<Call("Modify", <<>>, changes, "error")>>]
     ELSE [done |-> FALSE, err |-> "", id |-> id, st |-> Planned(cfg),
           dir |-> mod.dir, calls |-> <<Call("Modify", <<>>, changes, "ok")>>]

TwoAtoms ==
  {<<"description", "", "d">>, <<"member_uid", "", "alice">>,
   <<"attributes", "mail", "a">>}

TwoConfigs == {ConfigOf(A) : A \in SubsetsUpTo(TwoAtoms, MaxTwoWeight)}

\* An entry that is in the directory before the run, and the local state of
\* a resource that was imported from it.
GivenEntry(d) ==
  EntryOf({<<"objectClass", "posixGroup">>, <<"gidNumber", "1000">>}
          \cup {<<LeadingRDNOf(d)[1], LeadingRDNOf(d)[2]>>})

\* What the handler run alone, from here, ends with.
Expect(r) == [err |-> r.err, id |-> r.id, st |-> r.st, entry |-> r.dir[dn]]

\* The position of a handler that has made its first call and has yet to
\* re-read, or has returned.
After(step, cfg, outcome, first, whole) ==
  [at |-> IF step.done THEN "idle" ELSE "reread", base |-> Planned(cfg),
   outcome |-> outcome, first |-> first, overlapped |-> FALSE,
   expect |-> Expect(whole)]

InitTwo ==
  /\ dn \in DNs
  /\ \E given \in SUBSET DNs :
       /\ dir = [d \in DNs |-> IF d \in given THEN GivenEntry(d) ELSE NoEntry]
       /\ id = IF dn \in given THEN dn ELSE ""
       /\ st = IF dn \in given
               THEN ReadEntry(EmptyState, GivenEntry(dn).attrs,
                              [a \in {"description", "gidNumber"} |->
                                 IF a = "gidNumber" THEN "1000" ELSE ""]).st
               ELSE EmptyState
       /\ pc = [Idle EXCEPT !.expect = [err |-> "", id |-> id, st |-> st,
                                        entry |-> dir[dn]]]
       /\ \E o \in DNs \ {dn} :
            other =
              [dn |-> o,
               id |-> IF o \in given THEN o ELSE "",
               st |-> IF o \in given
                      THEN ReadEntry(EmptyState, GivenEntry(o).attrs,
                                     [a \in {"description", "gidNumber"} |->
                                        IF a = "gidNumber" THEN "1000" ELSE ""]).st
                      ELSE EmptyState,
               calls |-> <<>>,
               cycle |-> NoCycle,
               pc |-> [Idle EXCEPT !.expect =
                         [err |-> "",
                          id |-> IF o \in given THEN o ELSE "",
                          st |-> IF o \in given
                                 THEN ReadEntry(EmptyState, GivenEntry(o).attrs,
                                        [a \in {"description", "gidNumber"} |->
                                           IF a = "gidNumber" THEN "1000" ELSE ""]).st
                                 ELSE EmptyState,
                          entry |-> dir[o]]]]
  /\ calls = <<>>
  /\ cycle = NoCycle

\* resourceLDAPGroupCreate as far as client.Add
CreateCall ==
  /\ pc.at = "idle"
  /\ id = ""
  /\ cycle.err = ""
  /\ cycle.n < MaxCycles
  /\ \E cfg \in TwoConfigs, ans \in Answers :
       \E order \in Orders({e[1] : e \in cfg.attributes}) :
         \E first \in Firsts(DirAdd(dir, CreateAttributes(cfg, order),
                                    ans[1]).dir[dn].attrs) :
           \E r \in {CreateUntilRead(cfg, order, ans[1])} :
              /\ id' = r.id
              /\ st' = r.st
              /\ dir' = r.dir
              /\ calls' = r.calls
              /\ cycle' = Cycle("create", r.err, cfg, cycle.n + 1)
              /\ pc' = After(r, cfg, ans[2], first,
                             resourceLDAPGroupCreate(cfg, order, ans[1], ans[2], first))
  /\ UNCHANGED <<dn, other>>

\* resourceLDAPGroupUpdate as far as client.Modify
UpdateCall ==
  /\ pc.at = "idle"
  /\ id # ""
  /\ cycle.err = ""
  /\ cycle.n < MaxCycles
  /\ \E cfg \in TwoConfigs, ans \in Answers :
       \E first \in Firsts(DirModify(dir, UpdateChanges(st, Planned(cfg)),
                                     ans[1]).dir[dn].attrs) :
         \E r \in {UpdateUntilRead(cfg, ans[1])} :
            /\ id' = r.id
            /\ st' = r.st
            /\ dir' = r.dir
            /\ calls' = r.calls
            /\ cycle' = Cycle("update", r.err, cfg, cycle.n + 1)
            /\ pc' = After(r, cfg, ans[2], first,
                           resourceLDAPGroupUpdate(cfg, ans[1], ans[2], first))
  /\ UNCHANGED <<dn, other>>

\* resourceLDAPGroupDelete: its one call and its return
DeleteCall ==
  /\ pc.at = "idle"
  /\ id # ""
  /\ cycle.err = ""
  /\ cycle.n < MaxCycles
  /\ \E accepts \in BOOLEAN :
       \E r \in {resourceLDAPGroupDelete(accepts)} :
          /\ id' = r.id
          /\ st' = r.st
          /\ dir' = r.dir
          /\ calls' = r.calls
          /\ cycle' = Cycle("delete", r.err, BaseConfig, cycle.n + 1)
          /\ pc' = [Idle EXCEPT !.expect = Expect(r)]
  /\ UNCHANGED <<dn, other>>

\* The call of resourceLDAPGroupRead that ends create and update.
Reread ==
  /\ pc.at = "reread"
  /\ \E r \in {resourceLDAPGroupRead(pc.base, id, dir, pc.outcome, pc.first)} :
       /\ id' = r.id
       /\ st' = r.st
       /\ calls' = calls \o r.calls
       /\ cycle' = [cycle EXCEPT !.err = r.err]
  /\ pc' = [pc EXCEPT !.at = "idle",
                       !.overlapped = (other.pc.at = "reread")]
  /\ UNCHANGED <<dn, dir, other>>

\* The scheduler lets the other handler run.
Switch ==
  /\ other.dn # ""
  /\ dn' = other.dn
  /\ id' = other.id
  /\ st' = other.st
  /\ calls' = other.calls
  /\ cycle' = other.cycle
  /\ pc' = other.pc
  /\ other' = [dn |-> dn, id |-> id, st |-> st, calls |-> calls,
               cycle |-> cycle, pc |-> pc]
  /\ UNCHANGED dir

NextTwo == CreateCall \/ UpdateCall \/ DeleteCall \/ Reread \/ Switch

SpecTwo == InitTwo /\ [][NextTwo]_vars

----------------------------------------------------------------------------
(* Vocabulary of the properties.                                           *)

\* The last cycle read the entry: its Search found it and the read went
\* through.
ReadFound ==
  /\ cycle.op \in {"create", "read", "update", "import"}
  /\ cycle.err = ""
  /\ id # ""
  /\ dir[dn].present

\* The last cycle was an update whose Modify the directory applied.
ModifyApplied ==
  /\ cycle.op = "update"
  /\ Len(calls) = 2
  /\ calls[1].op = "Modify"

\* The directory attributes a generic bag stands for.
EncodeBag(bag) == [a \in AttrNames |-> {e[2] : e \in {x \in bag : x[1] = a}}]

\* The values a normalized state gives to a directory attribute, through the
\* attribute's own field and through the generic bag.
ExpectedValues(s, a) ==
  (CASE a = "description"  -> IF s.description = "" THEN {} ELSE {s.description}
     [] a = "gidNumber"    -> IF s.gid_number = 0 THEN {} ELSE {ToString(s.gid_number)}
     [] a = "objectClass"  -> s.object_classes
     [] a = "member"       -> s.member
     [] a = "memberUid"    -> s.member_uid
     [] a = "uniqueMember" -> s.unique_member
     [] a = "memberURL"    -> s.member_url
     [] OTHER              -> {})
  \cup EncodeBag(s.attributes)[a]

\* An attribute's values but for the zero value of a scalar field, which the
\* normalized state does not tell from no value.
NonZero(a, vals) ==
  vals \ (CASE a = "description" -> {""} [] a = "gidNumber" -> {"0"} [] OTHER -> {})

ManagedAttrs == AttrNames \ {"cn"}

\* The entry holds the state s in the attribute a; a state with no object
\* class asks for none in particular.
AttrEquals(entry, s, a) ==
  \/ NonZero(a, entry.attrs[a]) = NonZero(a, ExpectedValues(s, a))
  \/ a = "objectClass" /\ s.object_classes = {}

EntryEquals(entry, s) ==
  entry.present /\ \A a \in ManagedAttrs : AttrEquals(entry, s, a)

\* The leading RDN of the resource's DN.
LeadingRDN == LeadingRDNOf(dn)

\* The changes of a request that name the attribute a.
ChangesOf(changes, a) == SelectSeq(changes, LAMBDA ch : ch.type = a)

ValuesOf(changes, op) ==
  UNION {changes[i].vals : i \in {j \in 1..Len(changes) : changes[j].op = op}}

----------------------------------------------------------------------------
\* The operation by which a cycle changes the directory.
MutatingOp ==
  CASE cycle.op = "create" -> "Add"
    [] cycle.op = "update" -> "Modify"
    [] cycle.op = "delete" -> "Del"
    [] OTHER               -> "none"

\* The last cycle called its mutating operation once and first; when the
\* call failed nothing followed and nothing changed; when it succeeded the
\* cycle went on as the handler does after it.
CalledOnce ==
  /\ calls # <<>>
  /\ calls[1].op = MutatingOp
  /\ Cardinality({i \in 1..Len(calls) : calls[i].op \in {"Add", "Modify", "Del"}}) = 1
  /\ calls[1].result = "error"
     => /\ cycle.err = "protocol"
        /\ Len(calls) = 1
        /\ id = cycle.prevId
        /\ dir[dn] = cycle.prevEntry
  /\ (calls[1].result = "ok" /\ cycle.op = "delete")
     => (Len(calls) = 1 /\ cycle.err = "" /\ id = "")
  /\ (calls[1].result = "ok" /\ cycle.op \in {"create", "update"})
     => /\ Len(calls) = 2
        /\ calls[2].op = "Search"
        /\ id = IF calls[2].result \in {"NoSuchObject", "empty"} THEN "" ELSE dn

(* C1: a create whose required-attribute validation fails, or whose DN     *)
(* does not begin with a cn= pair, returns an error having issued no       *)
(* protocol call, and leaves the directory (and the local state) as it was. *)
C1_CreateFailsBeforeAnyCall ==
  (/\ cycle.op = "create"
   /\ \/ Len(validateObjectClasses(CreateObjectClasses(cycle.want), cycle.want)) > 0
      \/ ~HasPrefix(ToUpper(Chars(dn)), <<"C", "N", "=">>))
  => /\ cycle.err \in {"validation", "malformed_dn"}
     /\ calls = <<>>
     /\ dir[dn] = cycle.prevEntry
     /\ id = cycle.prevId
     /\ st = cycle.prevSt

C1_Witness ==
  /\ cycle.op = "create"
  /\ dn = "ou=users,o=x"
  /\ cycle.err = "malformed_dn"
  /\ calls = <<>>

(* C2: an update that starts with the directory entry equal to the         *)
(* previous state, and whose Modify succeeds, leaves the entry equal to    *)
(* the desired state in every managed field, the object classes included.  *)
C2_UpdateConverges ==
  (ModifyApplied /\ EntryEquals(cycle.prevEntry, cycle.prevSt))
  => EntryEquals(dir[dn], Planned(cycle.want))

(* C3: the delta of two generic bags P and D has added = D \ P and         *)
(* removed = P \ D, and the changes update renders from it turn a          *)
(* directory holding P into one holding exactly D.                         *)
C3_BagDelta ==
  cycle.op = "update" =>
    LET P == cycle.prevSt.attributes
        D == Planned(cycle.want).attributes
        deltas == computeDeltas(P, D)
        entries(mods) ==
          UNION {{<<mods[i].type, v>> : v \in mods[i].vals} : i \in 1..Len(mods)}
        ops == AttributeChanges(cycle.prevSt, Planned(cycle.want))
        applied == ApplyChanges(EncodeBag(P), ops)
    IN /\ entries(deltas.added) = D \ P
       /\ entries(deltas.removed) = P \ D
       /\ SubSeq(calls[1].changes, Len(calls[1].changes) - Len(ops) + 1,
                 Len(calls[1].changes)) = ops
       /\ applied.ok
       /\ applied.attrs = EncodeBag(D)
       /\ \A a \in {"mail", "ou"} :
            (ModifyApplied /\ cycle.prevEntry.attrs[a] = EncodeBag(P)[a])
            => dir[dn].attrs[a] = EncodeBag(D)[a]

C3_Witness ==
  /\ ModifyApplied
  /\ cycle.prevSt.attributes = {<<"mail", "a">>}
  /\ cycle.prevEntry.attrs["mail"] = {"a"}
  /\ cycle.want.attributes = {<<"mail", "a">>, <<"mail", "b">>}
  /\ dir[dn].attrs["mail"] = {"a", "b"}

(* C4: for each of member, memberUid, uniqueMember and memberURL, with O   *)
(* the previous set and N the desired one, update emits an Add for exactly *)
(* the values of N \ O, a Delete for exactly those of O \ N and nothing    *)
(* for the values in both, and these changes turn a store holding O into   *)
(* one holding N.                                                          *)
C4_MemberSetDelta ==
  cycle.op = "update" =>
    \A f \in {<<"member", "member">>, <<"member_uid", "memberUid">>,
              <<"unique_member", "uniqueMember">>, <<"member_url", "memberURL">>} :
      LET O == cycle.prevSt[f[1]]
          N == Planned(cycle.want)[f[1]]
          chs == ChangesOf(calls[1].changes, f[2])
          applied == ApplyChanges([NoAttrs EXCEPT ![f[2]] = O], chs)
      IN /\ \A i \in 1..Len(chs) :
              chs[i].op \in {"Add", "Delete"} /\ Cardinality(chs[i].vals) = 1
         /\ ValuesOf(chs, "Add") = N \ O
         /\ ValuesOf(chs, "Delete") = O \ N
         /\ Len(chs) = Cardinality(N \ O) + Cardinality(O \ N)
         /\ applied.ok
         /\ applied.attrs[f[2]] = N
         /\ (ModifyApplied /\ cycle.prevEntry.attrs[f[2]] = O)
            => dir[dn].attrs[f[2]] = N

C4_Witness ==
  /\ ModifyApplied
  /\ cycle.prevSt.member_uid = {"alice", "bob"}
  /\ cycle.prevEntry.attrs["memberUid"] = {"alice", "bob"}
  /\ cycle.want.member_uid = {"bob", "carol"}
  /\ ValuesOf(ChangesOf(calls[1].changes, "memberUid"), "Add") = {"carol"}
  /\ ValuesOf(ChangesOf(calls[1].changes, "memberUid"), "Delete") = {"alice"}
  /\ dir[dn].attrs["memberUid"] = {"bob", "carol"}

(* C5: the delta from a normalized state to itself has no added and no     *)
(* removed entry, and an update whose previous and desired states are      *)
(* equal builds a Modify request with no change at all.                    *)
C5_Idempotence ==
  (cycle.op = "update" /\ cycle.prevSt = Planned(cycle.want))
  => /\ computeDeltas(cycle.prevSt.attributes, cycle.prevSt.attributes).added = <<>>
     /\ computeDeltas(cycle.prevSt.attributes, cycle.prevSt.attributes).removed = <<>>
     /\ calls[1].op = "Modify"
     /\ calls[1].changes = <<>>

C5_Witness ==
  /\ cycle.op = "update"
  /\ cycle.prevSt = Planned(cycle.want)
  /\ cycle.prevSt.attributes # {}
  /\ cycle.prevSt.member_uid # {}
  /\ calls[1].changes = <<>>

(* C6 as stated: for any generic bag B, whatever names it contains, the   *)
(* bag read back after a create that sent B is equal to B.                 *)
C6_RoundTripAnyNames ==
  (cycle.op = "create" /\ ReadFound) => st.attributes = cycle.want.attributes

(* C6, amended: for any generic bag B with no entry named after an         *)
(* attribute that has a path of its own (objectClass, cn, description,     *)
(* gidNumber, member, memberUid, uniqueMember, memberURL) and no name      *)
(* whose single entry, written name=value, begins the DN, the bag read     *)
(* back after a create that sent B is equal to B, and the directory holds  *)
(* under each of B's names exactly B's values for it.                      *)
C6_RoundTrip ==
  (/\ cycle.op = "create"
   /\ ReadFound
   /\ \A e \in cycle.want.attributes :
        /\ e[1] \notin SkippedAttributes
        /\ \/ Cardinality({x \in cycle.want.attributes : x[1] = e[1]}) > 1
           \/ ~HasPrefix(Chars(dn), Sprintf(e[1], e[2])))
  => /\ st.attributes = cycle.want.attributes
     /\ \A a \in {e[1] : e \in cycle.want.attributes} :
          dir[dn].attrs[a] = EncodeBag(cycle.want.attributes)[a]

C6_Witness ==
  /\ cycle.op = "create"
  /\ ReadFound
  /\ cycle.want.attributes = {<<"mail", "a">>, <<"mail", "b">>}
  /\ st.attributes = {<<"mail", "a">>, <<"mail", "b">>}
  /\ dir[dn].attrs["mail"] = {"a", "b"}

(* C7: after a read of an entry that has member values, the normalized     *)
(* member set is the entry's member values, so that a create with member   *)
(* set M followed by the read gives member = M.                            *)
C7_MemberReadFromOwnValues ==
  (ReadFound /\ dir[dn].attrs["member"] # {})
  => st.member = dir[dn].attrs["member"]

(* C8: the generic bag a read produces never holds the entry (name, value) *)
(* of the DN's leading RDN component when the entry found has that         *)
(* attribute with this single value.                                       *)
C8_RDNExcluded ==
  (ReadFound /\ dir[dn].attrs[LeadingRDN[1]] = {LeadingRDN[2]})
  => <<LeadingRDN[1], LeadingRDN[2]>> \notin st.attributes

C8_Witness ==
  /\ ReadFound
  /\ dn = "ou=users,o=x"
  /\ dir[dn].attrs["ou"] = {"users"}
  /\ dir[dn].attrs["mail"] = {"a"}
  /\ st.attributes = {<<"mail", "a">>}

(* C9: a read gives one generic-bag entry per value of every attribute     *)
(* found that is not well-known, not objectClass or cn, and not the DN's   *)
(* leading RDN component itself; an attribute whose name=value only begins *)
(* the DN string is kept.                                                  *)
C9_DecodeComplete ==
  ReadFound =>
    \A a \in AttrNames \ SkippedAttributes :
      \A v \in dir[dn].attrs[a] :
        (<<a, v>> # <<LeadingRDN[1], LeadingRDN[2]>>) => <<a, v>> \in st.attributes

(* C10: with posixGroup among the object classes, validation returns one   *)
(* error when the desired state supplies no gid_number and none when it    *)
(* supplies one, whatever its value; without posixGroup it returns none.   *)
C10_Validation ==
  cycle.op = "create" =>
    LET objectClasses == CreateObjectClasses(cycle.want)
        errors == validateObjectClasses(objectClasses, cycle.want)
        posix == \E i \in 1..Len(objectClasses) : objectClasses[i] = "posixGroup"
    IN /\ Len(errors) = (IF posix /\ ~cycle.want.gid_supplied THEN 1 ELSE 0)
       /\ (cycle.err = "validation") = (posix /\ ~cycle.want.gid_supplied)

(* C11: a read whose Search ends with "no such object", or with no entry,  *)
(* clears the resource ID and returns success with every other field as    *)
(* it was; a read whose Search fails otherwise returns the error and       *)
(* leaves the ID, and the fields, as they were.                            *)
C11_ReadAbsence ==
  cycle.op \in {"read", "import"} =>
    LET enteringId == IF cycle.op = "import" THEN dn ELSE cycle.prevId
        enteringSt == IF cycle.op = "import" THEN EmptyState ELSE cycle.prevSt
    IN /\ Len(calls) = 1
       /\ calls[1].op = "Search"
       /\ calls[1].result \in {"NoSuchObject", "empty"}
          => (cycle.err = "" /\ id = "" /\ st = enteringSt)
       /\ calls[1].result = "Other"
          => (cycle.err = "protocol" /\ id = enteringId /\ st = enteringSt)
       /\ dir[dn] = cycle.prevEntry

C11_Witness ==
  /\ cycle.op = "read"
  /\ calls[1].result = "NoSuchObject"
  /\ cycle.prevId = dn
  /\ cycle.prevSt.member_uid = {"carol"}
  /\ id = ""
  /\ st = cycle.prevSt

(* C12: in the Add request create builds, objectClass, cn, description,    *)
(* gidNumber, member, memberUid, uniqueMember and memberURL are each named *)
(* by at most one attribute, whatever the desired state, a generic bag     *)
(* with an entry under one of these names included.                        *)
C12_DedicatedOnce ==
  (cycle.op = "create" /\ calls # <<>>) =>
    \A a \in SkippedAttributes :
      Cardinality({i \in 1..Len(calls[1].attributes) :
                    calls[1].attributes[i].type = a}) <= 1

(* C13 as stated: every create, update or delete cycle that passes the     *)
(* required-attribute validation calls its mutating operation exactly      *)
(* once; a failure of that call is returned with no further call and the   *)
(* ID as before; after its success create sets the ID and re-reads, update *)
(* re-reads, delete clears the ID.                                         *)
C13_OnceAfterValidation ==
  (/\ cycle.op \in {"create", "update", "delete"}
   /\ cycle.op = "create"
      => validateObjectClasses(CreateObjectClasses(cycle.want), cycle.want) = <<>>)
  => CalledOnce

(* C13, amended: the same for every update and delete cycle and for every  *)
(* create cycle that passes the validation and whose DN begins with a cn=  *)
(* pair.                                                                   *)
C13_NoRetry ==
  (/\ cycle.op \in {"create", "update", "delete"}
   /\ cycle.op = "create"
      => /\ validateObjectClasses(CreateObjectClasses(cycle.want), cycle.want) = <<>>
         /\ HasPrefix(ToUpper(Chars(dn)), <<"C", "N", "=">>))
  => CalledOnce

C13_Witness ==
  /\ cycle.op = "update"
  /\ calls[1].op = "Modify"
  /\ calls[1].result = "error"
  /\ Len(calls) = 1
  /\ cycle.err = "protocol"
  /\ id = dn

(* C14: the Modify request of an update holds one Replace of description,  *)
(* with the whole desired value, iff description differs between the       *)
(* previous and the desired state, one Replace of gidNumber iff gid_number *)
(* differs, and no other Replace; it holds an Add or a Delete naming an    *)
(* attribute only if the attribute's member set, or its values in the      *)
(* generic bag, differ between the two states.                             *)
C14_OnlyWhatChanged ==
  cycle.op = "update" =>
    LET P == cycle.prevSt
        D == Planned(cycle.want)
        chs == calls[1].changes
        replaces(a) == SelectSeq(ChangesOf(chs, a), LAMBDA ch : ch.op = "Replace")
    IN /\ calls[1].op = "Modify"
       /\ Len(replaces("description")) = (IF P.description # D.description THEN 1 ELSE 0)
       /\ P.description # D.description
          => replaces("description")[1].vals = {D.description}
       /\ Len(replaces("gidNumber")) = (IF P.gid_number # D.gid_number THEN 1 ELSE 0)
       /\ P.gid_number # D.gid_number
          => replaces("gidNumber")[1].vals = {ToString(D.gid_number)}
       /\ \A i \in 1..Len(chs) :
            chs[i].op = "Replace" => chs[i].type \in {"description", "gidNumber"}
       /\ \A a \in AttrNames :
            (/\ \A f \in {<<"member", "member">>, <<"member_uid", "memberUid">>,
                          <<"unique_member", "uniqueMember">>,
                          <<"member_url", "memberURL">>} :
                  f[2] = a => P[f[1]] = D[f[1]]
             /\ EncodeBag(P.attributes)[a] = EncodeBag(D.attributes)[a])
            => SelectSeq(ChangesOf(chs, a), LAMBDA ch : ch.op # "Replace") = <<>>

C14_Witness ==
  /\ cycle.op = "update"
  /\ cycle.prevSt.description = ""
  /\ cycle.want.description = "d"
  /\ cycle.prevSt.member_uid = {"alice"}
  /\ cycle.want.member_uid = {"alice"}
  /\ cycle.prevSt.gid_number = 1000
  /\ calls[1].changes = <<Change("Replace", "description", {"d"})>>

(* C15: the state after a read that found the entry depends on the entry   *)
(* alone: reading the same entry from any other prior local state gives    *)
(* the same value to every field, a field whose attribute has no value in  *)
(* the directory included.                                                 *)
C15_ReadFromDirectoryAlone ==
  (cycle.op = "read" /\ ReadFound) =>
    \A prior \in PriorStates :
      \A first \in Firsts(dir[dn].attrs) :
        first["description"] = st.description
        => ReadEntry(prior, dir[dn].attrs, first).st = st

(* C16: a create whose desired state supplies no object_classes validates  *)
(* against, and sends, the object classes [posixGroup]; with no gid_number *)
(* either it fails validation and sends nothing; every Add request sent    *)
(* has an objectClass attribute with at least one value.                   *)
C16_DefaultObjectClass ==
  cycle.op = "create" =>
    /\ (cycle.want.object_classes = {} /\ ~cycle.want.gid_supplied)
       => (cycle.err = "validation" /\ calls = <<>>)
    /\ cycle.want.object_classes = {}
       => /\ validateObjectClasses(CreateObjectClasses(cycle.want), cycle.want)
             = validateObjectClasses(<<"posixGroup">>, cycle.want)
          /\ (cycle.err = "validation") = ~GetOkGidNumber(cycle.want)
    /\ calls # <<>>
       => /\ calls[1].op = "Add"
          /\ \E i \in 1..Len(calls[1].attributes) :
               /\ calls[1].attributes[i].type = "objectClass"
               /\ calls[1].attributes[i].vals # {}
               /\ calls[1].attributes[i].vals =
                    (IF cycle.want.object_classes = {} THEN {"posixGroup"}
                     ELSE cycle.want.object_classes)

C16_Witness ==
  /\ cycle.op = "create"
  /\ cycle.want.object_classes = {}
  /\ cycle.want.gid_supplied
  /\ calls # <<>>
  /\ calls[1].result = "ok"
  /\ calls[1].attributes[1] = Attr("objectClass", {"posixGroup"})
  /\ dir[dn].attrs["objectClass"] = {"posixGroup"}

(* C17: every call a cycle issues carries the DN of its resource, and when *)
(* the cycles of two resources with distinct DNs interleave their calls,   *)
(* each resource's directory entry and local state end as they do when the *)
(* cycle runs with nothing in between its calls.                           *)
C17_Independence ==
  /\ \A i \in 1..Len(calls) : calls[i].dn = dn
  /\ \A i \in 1..Len(other.calls) : other.calls[i].dn = other.dn
  /\ pc.at = "idle"
     => /\ cycle.err = pc.expect.err
        /\ id = pc.expect.id
        /\ st = pc.expect.st
        /\ dir[dn] = pc.expect.entry
  /\ (other.dn # "" /\ other.pc.at = "idle")
     => /\ other.cycle.err = other.pc.expect.err
        /\ other.id = other.pc.expect.id
        /\ other.st = other.pc.expect.st
        /\ dir[other.dn] = other.pc.expect.entry

C17_Witness ==
  /\ dn = "cn=g,o=x"
  /\ cycle.op = "create"
  /\ pc.at = "idle"
  /\ pc.overlapped
  /\ Len(calls) = 2
  /\ calls[2].result = "found"
  /\ st.member_uid = {"alice"}
  /\ other.cycle.op = "update"
  /\ other.pc.at = "idle"
  /\ Len(other.calls) = 2
  /\ other.calls[2].result = "found"
  /\ other.st.description = "d"
  /\ dir[other.dn].attrs["description"] = {"d"}

====
